---- MODULE Spec2Model ----
(***************************************************************************)
(* One run of the daily-digest script src/main.py: main() fetches the      *)
(* Todoist tasks, then fetch_updates() fetches the news and the weather    *)
(* (WeatherAPI.com with a Weatherbit fallback), then send_email() renders  *)
(* the digest and submits it over SMTP, and main() prints the status.      *)
(*                                                                         *)
(* Text is modelled as a sequence of tokens.  The tokens "T", "D", "U"     *)
(* stand for the literal markers "Title: ", "Description: ", "URL: ", the  *)
(* token "n" for one newline, every other token for a piece of text that   *)
(* holds no marker and no newline.  Calendar dates are day numbers.        *)
(***************************************************************************)
EXTENDS Integers, Sequences, FiniteSets, TLC

(* ------------------------------ bounds --------------------------------- *)
MaxTasks == 2       \* longest task list the task provider returns
MaxArticles == 2    \* longest data array the news provider returns
MaxTicks == 1       \* midnights that may pass during one run
Day0 == 0           \* the calendar day on which the run starts

(* ------------------------------ text ----------------------------------- *)
\* s[i..] starts with sep
StartsAt(s, i, sep) ==
    /\ i + Len(sep) - 1 <= Len(s)
    /\ \A k \in 1..Len(sep) : s[i + k - 1] = sep[k]

\* Python: sub in s
Contains(s, sub) == \E i \in 1..(Len(s) + 1) : StartsAt(s, i, sub)

\* Python: s.split(sep), sep non-empty; a sequence of at least one string
RECURSIVE SplitFrom(_, _, _, _)
SplitFrom(s, sep, i, cur) ==
    IF i > Len(s) THEN <<cur>>
    ELSE IF StartsAt(s, i, sep)
         THEN <<cur>> \o SplitFrom(s, sep, i + Len(sep), <<>>)
         ELSE SplitFrom(s, sep, i + 1, Append(cur, s[i]))

Split(s, sep) == SplitFrom(s, sep, 1, <<>>)

\* Python: sep.join(parts)
RECURSIVE Join(_, _)
Join(parts, sep) ==
    IF parts = <<>> THEN <<>>
    ELSE IF Len(parts) = 1 THEN parts[1]
    ELSE parts[1] \o sep \o Join(Tail(parts), sep)

RECURSIVE Count(_, _)
Count(s, x) ==
    IF s = <<>> THEN 0
    ELSE (IF Head(s) = x THEN 1 ELSE 0) + Count(Tail(s), x)

\* position of the first x in s, 0 when there is none
RECURSIVE FirstIndex(_, _, _)
FirstIndex(s, x, i) ==
    IF i > Len(s) THEN 0
    ELSE IF s[i] = x THEN i ELSE FirstIndex(s, x, i + 1)

\* all sequences over S of length at most n
SeqsUpTo(S, n) == UNION { [1..k -> S] : k \in 0..n }

(* ------------------------------ news ----------------------------------- *)
Absent == <<"absent">>          \* a key the provider's record does not have
NoNewsFound == <<"No news found.">>
ErrorFetchingNews == <<"Error fetching news.">>

\* dict.get(key, default)
Get(v, default) == IF v = Absent THEN default ELSE v

\* the article records the news provider may return
Articles ==
    { [title |-> <<"t1">>, description |-> <<"d1">>, url |-> <<"u1">>],
      [title |-> Absent,   description |-> <<"d1">>, url |-> <<"u1">>] }

\* what the news provider answers: a transport or decoding error, a payload
\* without the "data" key, or a payload with a data array
NewsResponses ==
    { [kind |-> "exception", data |-> <<>>], [kind |-> "nodata", data |-> <<>>] }
    \cup { [kind |-> "data", data |-> d] : d \in SeqsUpTo(Articles, MaxArticles) }

\* "limit": 3 in the query of fetch_news_async
NewsLimit == 3

\* longest data array of the larger set of news answers
MaxRecords == 4

Complete == [title |-> <<"t1">>, description |-> <<"d1">>, url |-> <<"u1">>]

\* article records with one key missing
Incomplete ==
    { [title |-> Absent,   description |-> <<"d1">>, url |-> <<"u1">>],
      [title |-> <<"t1">>, description |-> Absent,   url |-> <<"u1">>],
      [title |-> <<"t1">>, description |-> <<"d1">>, url |-> Absent] }

\* data arrays of up to MaxRecords records, complete but for at most one
RecordArrays ==
    { [i \in 1..n |-> Complete] : n \in 0..MaxRecords }
    \cup { [i \in 1..n |-> IF i = k THEN a ELSE Complete] :
             n \in 1..MaxRecords, k \in 1..MaxRecords, a \in Incomplete }

\* the larger set of news answers: the provider may ignore the limit
ManyNewsResponses ==
    { [kind |-> "exception", data |-> <<>>], [kind |-> "nodata", data |-> <<>>] }
    \cup { [kind |-> "data", data |-> d] : d \in RecordArrays }

\* longest field text of the news answers with free text
MaxFieldLen == 2

\* what a field of a record may hold: plain text, newlines, the markers
FieldTexts == SeqsUpTo({"x", "n", "T", "D", "U"}, MaxFieldLen)

\* records with every key present, one field holding free text
TextRecords ==
    { [title |-> f, description |-> <<"d1">>, url |-> <<"u1">>] : f \in FieldTexts }
    \cup { [title |-> <<"t1">>, description |-> f, url |-> <<"u1">>] : f \in FieldTexts }
    \cup { [title |-> <<"t1">>, description |-> <<"d1">>, url |-> f] : f \in FieldTexts }

\* data arrays of one such record, alone or followed by a complete record
TextNewsResponses ==
    { [kind |-> "data", data |-> <<r>>] : r \in TextRecords }
    \cup { [kind |-> "data", data |-> <<r, Complete>>] : r \in TextRecords }

FormatArticle(item) ==
    <<"T">> \o Get(item.title, <<"No title">>) \o <<"n", "D">>
            \o Get(item.description, <<"No description">>) \o <<"n", "U">>
            \o Get(item.url, <<"No URL">>)

NewsText(resp) ==
    IF resp.kind = "exception" THEN ErrorFetchingNews
    ELSE IF resp.kind = "nodata" THEN NoNewsFound
    ELSE Join([i \in 1..Len(resp.data) |-> FormatArticle(resp.data[i])], <<"n", "n">>)

ParseItem(item) ==
    [title |-> IF Contains(item, <<"T">>)
               THEN Split(Split(item, <<"T">>)[2], <<"n">>)[1] ELSE <<"No title">>,
     description |-> IF Contains(item, <<"D">>)
               THEN Split(Split(item, <<"D">>)[2], <<"n">>)[1] ELSE <<"No description">>,
     url |-> IF Contains(item, <<"U">>) THEN Split(item, <<"U">>)[2] ELSE <<"#">>]

NewsItems(news) ==
    LET items == Split(news, <<"n", "n">>)
    IN  [i \in 1..Len(items) |-> ParseItem(items[i])]

(* ------------------------------ weather -------------------------------- *)
\* Python's None, as a record so that it compares with the reports
None == [none |-> TRUE]

\* Wind speeds are integers: km/h in hundredths, m/s in tenths, so that the
\* factor 3.6 of the source is the integer factor 36.  Temperatures are in
\* degrees Celsius.
WeatherapiPayloads ==
    { [name |-> "Chennai", country |-> "India", temp_c |-> 30, text |-> "Sunny",
       humidity |-> 70, wind_kph |-> 1300, feelslike_c |-> 33, last_updated |-> "u1"] }

WeatherbitPayloads ==
    { [city_name |-> "Chennai", country_code |-> "IN", temp |-> 29, description |-> "Clouds",
       rh |-> 72, wind_spd |-> 50, app_temp |-> 31, ob_time |-> "u2"] }

\* what a weather provider answers: the request raises (transport error), or
\* a response arrives with a status and a body that does not decode as JSON,
\* is empty or lacks the top-level key, has the top-level key but lacks a
\* nested one, or is complete
WeatherResponses(payloads) ==
    { [kind |-> "exception", status |-> 0, body |-> "none", payload |-> None] }
    \cup { [kind |-> "http", status |-> 500, body |-> "full", payload |-> p] : p \in payloads }
    \cup { [kind |-> "http", status |-> 200, body |-> b, payload |-> None] :
             b \in {"undecodable", "nokey", "partial"} }
    \cup { [kind |-> "http", status |-> 200, body |-> "full", payload |-> p] : p \in payloads }

\* a response with success status and the expected schema
WellFormed(resp) == resp.kind = "http" /\ resp.status = 200 /\ resp.body = "full"

\* a small set of weather answers: a transport error or a complete answer
FewWeatherResponses(payloads) ==
    { r \in WeatherResponses(payloads) : r.kind = "exception" \/ WellFormed(r) }

WeatherapiReport(p) ==
    [source |-> "WeatherAPI.com",
     location |-> [city |-> p.name, country |-> p.country],
     current |-> [temp_c |-> p.temp_c, condition |-> p.text, humidity |-> p.humidity,
                  wind_kph |-> p.wind_kph, feels_like |-> p.feelslike_c,
                  last_updated |-> p.last_updated]]

\* a secondary adapter that copies the wind speed without converting it
WeatherbitReport_NoConversion(p) ==
    [source |-> "Weatherbit",
     location |-> [city |-> p.city_name, country |-> p.country_code],
     current |-> [temp_c |-> p.temp, condition |-> p.description, humidity |-> p.rh,
                  wind_kph |-> p.wind_spd, feels_like |-> p.app_temp,
                  last_updated |-> p.ob_time]]

WeatherbitReport(p) ==
    [source |-> "Weatherbit",
     location |-> [city |-> p.city_name, country |-> p.country_code],
     current |-> [temp_c |-> p.temp, condition |-> p.description, humidity |-> p.rh,
                  wind_kph |-> p.wind_spd * 36, feels_like |-> p.app_temp,
                  last_updated |-> p.ob_time]]

\* a primary adapter without the status check
FetchWeatherapi_NoStatusCheck(resp) ==
    IF resp.kind = "exception" THEN None
    ELSE IF resp.body = "full" THEN WeatherapiReport(resp.payload)
    ELSE None

\* fetch_weather_from_weatherapi: every exception is caught and gives None
FetchWeatherapi(resp) ==
    IF resp.kind = "exception" THEN None
    ELSE IF resp.status # 200 THEN None
    ELSE IF resp.body = "undecodable" THEN None
    ELSE IF resp.body = "nokey" THEN None
    ELSE IF resp.body = "partial" THEN None
    ELSE WeatherapiReport(resp.payload)

\* fetch_weather_from_weatherbit: every exception is caught and gives None
FetchWeatherbit(resp) ==
    IF resp.kind = "exception" THEN None
    ELSE IF resp.status # 200 THEN None
    ELSE IF resp.body = "undecodable" THEN None
    ELSE IF resp.body = "nokey" THEN None
    ELSE IF resp.body = "partial" THEN None
    ELSE WeatherbitReport(resp.payload)

\* a chain that ignores the primary's result and always falls back
Truthy_AlwaysFallBack(r) == FALSE

\* Python truth value of a provider function's result: "if weather_result:"
Truthy(r) == r # None

\* a chain that returns the secondary's None when both providers failed
WeatherUnavailable_ReturnsNone == None

WeatherUnavailable ==
    [error |-> TRUE, message |-> "Weather information is unavailable from all sources."]

\* format_weather_html: branches on the "error" key
FormatWeatherHtml(w) ==
    IF "error" \in DOMAIN w
    THEN [class |-> "weather-error", text |-> w.message]
    ELSE [class |-> "weather-container", source |-> w.source, city |-> w.location.city,
          temp_c |-> w.current.temp_c, wind_kph |-> w.current.wind_kph,
          feels_like |-> w.current.feels_like]

(* ------------------------------ tasks ---------------------------------- *)
\* the "due" of a provider task: none, a YYYY-MM-DD date, or a value that
\* strptime(..., "%Y-%m-%d") rejects (for example one with a time of day)
Dues ==
    { [kind |-> "none", d |-> 0], [kind |-> "bad", d |-> 0] }
    \cup { [kind |-> "date", d |-> k] : k \in (Day0 - 1)..(Day0 + 3) }

\* answers whose list arrives but whose record number `failed` raises in
\* to_dict; the content of the records plays no part once one of them fails
ConversionFailures ==
    UNION { { [kind |-> "ok",
               dues |-> [i \in 1..n |-> [kind |-> "date", d |-> Day0 + 1]],
               failed |-> k] : k \in 1..n } : n \in 1..MaxTasks }

\* what the task provider answers: an error of the client or of the request,
\* or a list of tasks; failed is the record whose to_dict raises, 0 for none
TaskResponses ==
    { [kind |-> "error", dues |-> <<>>, failed |-> 0] }
    \cup { [kind |-> "ok", dues |-> ds, failed |-> 0] : ds \in SeqsUpTo(Dues, MaxTasks) }
    \cup ConversionFailures

\* a small set of task answers: an error, no task, tasks due on the two
\* days after the run's start
FewTaskResponses ==
    { [kind |-> "error", dues |-> <<>>, failed |-> 0],
      [kind |-> "ok", dues |-> <<>>, failed |-> 0],
      [kind |-> "ok", dues |-> <<[kind |-> "date", d |-> Day0 + 1]>>, failed |-> 0],
      [kind |-> "ok", dues |-> <<[kind |-> "date", d |-> Day0 + 1],
                                 [kind |-> "date", d |-> Day0 + 2]>>, failed |-> 0] }

\* a get_tasks that keeps the records converted before the failing one
GetTasks_KeepsConverted(resp) ==
    IF resp.kind = "error" THEN <<>>
    ELSE IF resp.failed # 0
         THEN [i \in 1..(resp.failed - 1) |-> [id |-> i, due |-> resp.dues[i]]]
    ELSE [i \in 1..Len(resp.dues) |-> [id |-> i, due |-> resp.dues[i]]]

\* get_tasks: the list of task dictionaries, [] on any exception of the
\* client, the request or the conversion of a record
GetTasks(resp) ==
    IF resp.kind = "error" \/ resp.failed # 0 THEN <<>>
    ELSE [i \in 1..Len(resp.dues) |-> [id |-> i, due |-> resp.dues[i]]]

\* a loop that skips the tasks due today as past
IsPast_SkipsToday(due, today) == due <= today

\* a loop that takes every task from tomorrow on as due tomorrow
IsTomorrow_OrLater(due, today) == due >= today + 1

IsPast(due, today) == due < today
IsAfterWindow(due, today) == due > today + 2
IsToday(due, today) == due = today
IsTomorrow(due, today) == due = today + 1

\* the classification loop of send_email over tasks[i..]; raised is TRUE when
\* strptime raised, and the buckets are then those built so far
RECURSIVE ClassifyFrom(_, _, _, _, _)
ClassifyFrom(tasks, i, today, tod, tom) ==
    IF i > Len(tasks) THEN [raised |-> FALSE, today_tasks |-> tod, tomorrow_tasks |-> tom]
    ELSE LET task == tasks[i]
             due == task.due
         IN  IF due.kind = "none" THEN ClassifyFrom(tasks, i + 1, today, tod, tom)
             ELSE IF due.kind = "bad"
                  THEN [raised |-> TRUE, today_tasks |-> tod, tomorrow_tasks |-> tom]
             ELSE IF IsPast(due.d, today) THEN ClassifyFrom(tasks, i + 1, today, tod, tom)
             ELSE IF IsAfterWindow(due.d, today) THEN ClassifyFrom(tasks, i + 1, today, tod, tom)
             ELSE IF IsToday(due.d, today)
                  THEN ClassifyFrom(tasks, i + 1, today, Append(tod, task), tom)
             ELSE IF IsTomorrow(due.d, today)
                  THEN ClassifyFrom(tasks, i + 1, today, tod, Append(tom, task))
             ELSE ClassifyFrom(tasks, i + 1, today, tod, tom)

Classify(tasks, today) == ClassifyFrom(tasks, 1, today, <<>>, <<>>)

(* ------------------------------ state ---------------------------------- *)
ConfigKeys ==
    {"NEWS_API_KEY", "TODOIST_API_KEY", "WEATHERAPI_KEY", "WEATHERBIT_KEY",
     "EMAIL_SENDER", "EMAIL_PASSWORD"}

Unset == <<"unset">>
NoResp == [kind |-> "unset"]
NoStatus == [text |-> "unset", cause |-> "unset"]
NoMsg == [unset |-> TRUE]
NoDay == Day0 - 1000
NoResponse == [unset |-> TRUE]

SentText == "Email sent successfully."
FailedText == "Failed to send email"
UnexpectedText == "An unexpected error occurred"

VARIABLES
    pc,             \* where the run is
    missing,        \* the configuration option os.getenv finds absent, or "none"
    day,            \* the calendar day of the latest reading of the wall clock
    calls,          \* the network calls made so far, in order
    tasksResp,      \* the task provider's answer
    tasks,          \* main: tasks
    newsResp,       \* the news provider's answer
    current_date,   \* fetch_news_async: current_date
    news,           \* main: news
    primaryResp,    \* fetch_weather_async: WeatherAPI.com's answer
    secondaryResp,  \* fetch_weather_async: Weatherbit's answer
    weather,        \* main: weather
    today,          \* send_email: today
    today_tasks,    \* send_email: today_tasks
    tomorrow_tasks, \* send_email: tomorrow_tasks
    msg,            \* send_email: the rendered message
    smtp_steps,     \* the SMTP steps that completed, in order
    send_status,    \* main: send_status
    printed,        \* what main printed
    response        \* what the HTTP wrapper answered

vars == <<pc, missing, day, calls, tasksResp, tasks, newsResp, current_date, news,
          primaryResp, secondaryResp, weather, today, today_tasks, tomorrow_tasks,
          msg, smtp_steps, send_status, printed, response>>

fetchVars == <<tasksResp, tasks, newsResp, current_date, news, primaryResp,
               secondaryResp, weather>>
renderVars == <<today, today_tasks, tomorrow_tasks, msg>>
smtpVars == <<smtp_steps, send_status>>

Init ==
    /\ pc = "get_tasks"
    /\ missing \in {"none"} \cup ConfigKeys
    /\ day = Day0
    /\ calls = <<>>
    /\ tasksResp = NoResp
    /\ tasks = <<>>
    /\ newsResp = NoResp
    /\ current_date = NoDay
    /\ news = Unset
    /\ primaryResp = NoResp
    /\ secondaryResp = NoResp
    /\ weather = None
    /\ today = NoDay
    /\ today_tasks = <<>>
    /\ tomorrow_tasks = <<>>
    /\ msg = NoMsg
    /\ smtp_steps = <<>>
    /\ send_status = NoStatus
    /\ printed = <<>>
    /\ response = NoResponse

(* ------------------------------ main: fetching ------------------------- *)
\* a main that sends the task request and goes on without its answer
GetTasksCall_NoWait ==
    /\ pc = "get_tasks"
    /\ calls' = Append(calls, "todoist")
    /\ pc' = "fetch_news"
    /\ UNCHANGED <<missing, day, fetchVars, renderVars, smtpVars, printed, response>>

\* main calls get_tasks, which sends the request to the task provider
GetTasksCall ==
    /\ pc = "get_tasks"
    /\ calls' = Append(calls, "todoist")
    /\ pc' = "tasks_wait"
    /\ UNCHANGED <<missing, day, fetchVars, renderVars, smtpVars, printed, response>>

\* get_tasks returns, the provider having answered with one of responses;
\* main enters asyncio.run(fetch_updates(...))
GetTasksReturnFrom(responses) ==
    /\ pc = "tasks_wait"
    /\ \E resp \in responses :
          /\ tasksResp' = resp
          /\ tasks' = GetTasks(resp)
    /\ pc' = "fetch_news"
    /\ UNCHANGED <<missing, day, calls, newsResp, current_date, news, primaryResp,
                   secondaryResp, weather, renderVars, smtpVars, printed, response>>

GetTasksReturn == GetTasksReturnFrom(TaskResponses)

\* datetime.now(): the clock's day, not before the latest reading; midnight
\* may have passed since
ClockReadings == day..(Day0 + MaxTicks)

\* fetch_updates awaits fetch_news_async, which reads the clock and sends
\* the request
FetchNewsCall ==
    /\ pc = "fetch_news"
    /\ \E now \in ClockReadings :
          /\ day' = now
          /\ current_date' = now
    /\ calls' = Append(calls, "mediastack")
    /\ pc' = "news_wait"
    /\ UNCHANGED <<missing, tasksResp, tasks, newsResp, news, primaryResp,
                   secondaryResp, weather, renderVars, smtpVars, printed, response>>

\* fetch_news_async returns, the provider having answered with one of
\* responses
FetchNewsReturnFrom(responses) ==
    /\ pc = "news_wait"
    /\ \E resp \in responses :
          /\ newsResp' = resp
          /\ news' = NewsText(resp)
    /\ pc' = "fetch_weather"
    /\ UNCHANGED <<missing, day, calls, tasksResp, tasks, current_date, primaryResp,
                   secondaryResp, weather, renderVars, smtpVars, printed, response>>

FetchNewsReturn == FetchNewsReturnFrom(NewsResponses)

\* fetch_updates awaits fetch_weather_async, which requests the primary
FetchWeatherCall ==
    /\ pc = "fetch_weather"
    /\ calls' = Append(calls, "weatherapi")
    /\ pc' = "primary_wait"
    /\ UNCHANGED <<missing, day, fetchVars, renderVars, smtpVars, printed, response>>

\* the primary answers; on success fetch_weather_async returns its report,
\* otherwise it requests the secondary
PrimaryReturnFrom(responses) ==
    /\ pc = "primary_wait"
    /\ \E resp \in responses :
          LET weather_result == FetchWeatherapi(resp)
          IN  /\ primaryResp' = resp
              /\ IF Truthy(weather_result)
                 THEN /\ weather' = weather_result
                      /\ pc' = "updates_done"
                      /\ calls' = calls
                 ELSE /\ weather' = weather
                      /\ pc' = "secondary_wait"
                      /\ calls' = Append(calls, "weatherbit")
    /\ UNCHANGED <<missing, day, tasksResp, tasks, newsResp, current_date, news,
                   secondaryResp, renderVars, smtpVars, printed, response>>

PrimaryResponses == WeatherResponses(WeatherapiPayloads)
PrimaryReturn == PrimaryReturnFrom(PrimaryResponses)

\* the secondary answers; fetch_weather_async returns its report or the
\* unavailable value
SecondaryReturnFrom(responses) ==
    /\ pc = "secondary_wait"
    /\ \E resp \in responses :
          LET weather_result == FetchWeatherbit(resp)
          IN  /\ secondaryResp' = resp
              /\ weather' = IF Truthy(weather_result) THEN weather_result
                            ELSE WeatherUnavailable
    /\ pc' = "updates_done"
    /\ UNCHANGED <<missing, day, calls, tasksResp, tasks, newsResp, current_date, news,
                   primaryResp, renderVars, smtpVars, printed, response>>

SecondaryResponses == WeatherResponses(WeatherbitPayloads)
SecondaryReturn == SecondaryReturnFrom(SecondaryResponses)

\* fetch_updates returns news and weather, asyncio.run returns them to
\* main; the coroutines' sessions and responses are gone
FetchUpdatesReturn ==
    /\ pc = "updates_done"
    /\ primaryResp' = NoResp
    /\ secondaryResp' = NoResp
    /\ pc' = "send_email"
    /\ UNCHANGED <<missing, day, calls, tasksResp, tasks, newsResp, current_date, news,
                   weather, renderVars, smtpVars, printed, response>>

(* ------------------------------ send_email ----------------------------- *)
\* html_template is assigned inside the "if tomorrow_tasks:" block
TemplateBound(tom) == tom # <<>>

\* what send_email returns from its handler for a non-SMTP exception
Unexpected(cause) == [text |-> UnexpectedText, cause |-> cause]
\* what send_email returns from its handler for smtplib.SMTPException
Failed(cause) == [text |-> FailedText, cause |-> cause]
Sent == [text |-> SentText, cause |-> "none"]

\* send_email up to msg.attach: parses the news block, classifies the tasks
\* against the clock, builds the task list, the template and the document
RenderDigest ==
    /\ pc = "send_email"
    /\ \E now \in ClockReadings :
       LET c == Classify(tasks, now)
       IN  /\ day' = now
           /\ today' = now
           /\ today_tasks' = c.today_tasks
           /\ tomorrow_tasks' = c.tomorrow_tasks
           /\ IF c.raised
              THEN /\ send_status' = Unexpected("strptime")
                   /\ msg' = msg
                   /\ pc' = "print"
              ELSE IF ~TemplateBound(c.tomorrow_tasks)
              THEN /\ send_status' = Unexpected("html_template")
                   /\ msg' = msg
                   /\ pc' = "print"
              ELSE /\ send_status' = send_status
                   /\ msg' = [news_items |-> NewsItems(news),
                              weather |-> FormatWeatherHtml(weather),
                              today_tasks |-> c.today_tasks,
                              tomorrow_tasks |-> c.tomorrow_tasks]
                   /\ pc' = "smtp_connect"
    /\ UNCHANGED <<missing, calls, fetchVars, smtp_steps, printed, response>>

\* how a blocking SMTP call ends
SmtpOutcomes == {"ok", "SMTPException", "Exception"}

\* a block that notes the failure of a step and goes on to the next step
SmtpStep_GoesOnAfterFailure(at, step, next, outcomes) ==
    /\ pc = at
    /\ \E o \in outcomes :
          IF o = "ok"
          THEN /\ smtp_steps' = Append(smtp_steps, step)
               /\ send_status' = IF next = "print" THEN Sent ELSE send_status
               /\ pc' = next
          ELSE /\ smtp_steps' = smtp_steps
               /\ send_status' = IF o = "SMTPException" THEN Failed(step)
                                 ELSE Unexpected(step)
               /\ pc' = next
    /\ UNCHANGED <<missing, day, fetchVars, renderVars, printed, response>>

\* one step of the "with smtplib.SMTP(...)" block: it completes and the
\* block goes on, or it raises and send_email returns from a handler
SmtpStep(at, step, next, outcomes) ==
    /\ pc = at
    /\ \E o \in outcomes :
          IF o = "ok"
          THEN /\ smtp_steps' = Append(smtp_steps, step)
               /\ send_status' = IF next = "print" THEN Sent ELSE send_status
               /\ pc' = next
          ELSE /\ smtp_steps' = smtp_steps
               /\ send_status' = IF o = "SMTPException" THEN Failed(step)
                                 ELSE Unexpected(step)
               /\ pc' = "print"
    /\ UNCHANGED <<missing, day, fetchVars, renderVars, printed, response>>

\* smtplib.SMTP(smtp_server, smtp_port): opens the connection
SmtpConnect ==
    /\ SmtpStep("smtp_connect", "connect", "smtp_starttls", SmtpOutcomes)
    /\ calls' = Append(calls, "smtp")

SmtpStarttls ==
    /\ SmtpStep("smtp_starttls", "starttls", "smtp_login", SmtpOutcomes)
    /\ calls' = calls

\* smtp.login(sender, password): cannot succeed without both credentials
SmtpLogin ==
    /\ SmtpStep("smtp_login", "login", "smtp_send",
                IF missing \in {"EMAIL_SENDER", "EMAIL_PASSWORD"}
                THEN SmtpOutcomes \ {"ok"} ELSE SmtpOutcomes)
    /\ calls' = calls

SmtpSendMessage ==
    /\ SmtpStep("smtp_send", "send_message", "smtp_quit", SmtpOutcomes)
    /\ calls' = calls

\* leaving the with block: SMTP.__exit__ sends QUIT and raises
\* SMTPResponseException when the reply is not 221
SmtpQuit ==
    /\ SmtpStep("smtp_quit", "quit", "print", {"ok", "SMTPException"})
    /\ calls' = calls

(* ------------------------------ main: end ------------------------------ *)
\* main prints send_status and returns
PrintStatus ==
    /\ pc = "print"
    /\ printed' = Append(printed, send_status)
    /\ pc' = "done"
    /\ UNCHANGED <<missing, day, calls, fetchVars, renderVars, smtpVars, response>>

Next ==
    \/ GetTasksCall
    \/ GetTasksReturn
    \/ FetchNewsCall
    \/ FetchNewsReturn
    \/ FetchWeatherCall
    \/ PrimaryReturn
    \/ SecondaryReturn
    \/ FetchUpdatesReturn
    \/ RenderDigest
    \/ SmtpConnect
    \/ SmtpStarttls
    \/ SmtpLogin
    \/ SmtpSendMessage
    \/ SmtpQuit
    \/ PrintStatus

Spec == Init /\ [][Next]_vars

\* the runs in which every configuration option is set
InitConfigured == Init /\ missing = "none"

SpecConfigured == InitConfigured /\ [][Next]_vars

\* the runs with every option set, over the larger set of news answers and
\* the small sets of task and weather answers
NewsGetTasksReturn == GetTasksReturnFrom(FewTaskResponses)
NewsFetchNewsReturn == FetchNewsReturnFrom(ManyNewsResponses)
FewPrimaryResponses == FewWeatherResponses(WeatherapiPayloads)
FewSecondaryResponses == FewWeatherResponses(WeatherbitPayloads)
NewsPrimaryReturn == PrimaryReturnFrom(FewPrimaryResponses)
NewsSecondaryReturn == SecondaryReturnFrom(FewSecondaryResponses)

NextNews ==
    \/ GetTasksCall
    \/ NewsGetTasksReturn
    \/ FetchNewsCall
    \/ NewsFetchNewsReturn
    \/ FetchWeatherCall
    \/ NewsPrimaryReturn
    \/ NewsSecondaryReturn
    \/ FetchUpdatesReturn
    \/ RenderDigest
    \/ SmtpConnect
    \/ SmtpStarttls
    \/ SmtpLogin
    \/ SmtpSendMessage
    \/ SmtpQuit
    \/ PrintStatus

SpecNews == InitConfigured /\ [][NextNews]_vars

\* the runs with every option set, over the news answers whose fields hold
\* newlines and markers, and the small sets of task and weather answers
TextFetchNewsReturn == FetchNewsReturnFrom(TextNewsResponses)

NextText ==
    \/ GetTasksCall
    \/ NewsGetTasksReturn
    \/ FetchNewsCall
    \/ TextFetchNewsReturn
    \/ FetchWeatherCall
    \/ NewsPrimaryReturn
    \/ NewsSecondaryReturn
    \/ FetchUpdatesReturn
    \/ RenderDigest
    \/ SmtpConnect
    \/ SmtpStarttls
    \/ SmtpLogin
    \/ SmtpSendMessage
    \/ SmtpQuit
    \/ PrintStatus

SpecText == InitConfigured /\ [][NextText]_vars

(* ------------------------------ app.py and the HTTP wrapper ------------ *)
CouldNotFetchTasks == "Could not fetch tasks."
NoOpenTasks == "No open tasks."

\* app.py get_tasks: a sentence naming the open tasks, not a list
AppGetTasks(resp) ==
    IF resp.kind = "error" \/ resp.failed # 0 THEN CouldNotFetchTasks
    ELSE IF resp.dues = <<>> THEN NoOpenTasks
    ELSE [open |-> [i \in 1..Len(resp.dues) |-> i]]

WeatherIsUnavailable == "Weather information is unavailable."
NoWeatherInformation == "No weather information."

\* app.py fetch_weather_async: Weatherbit only, no status check, a sentence
AppFetchWeather(resp) ==
    IF resp.kind = "exception" \/ resp.body \in {"undecodable", "partial"}
    THEN WeatherIsUnavailable
    ELSE IF resp.body = "nokey" THEN NoWeatherInformation
    ELSE [city_name |-> resp.payload.city_name, country_code |-> resp.payload.country_code,
          temp |-> resp.payload.temp, description |-> resp.payload.description]

\* what main returns: it has no return statement
MainReturn == None

\* what root answers
RootResponse == [message |-> "Daily update processed", result |-> MainReturn]

\* a GET arrives and root runs main in a thread
RootCall ==
    /\ pc = "root"
    /\ calls' = Append(calls, "main")
    /\ pc' = "app_get_tasks"
    /\ UNCHANGED <<missing, day, fetchVars, renderVars, smtpVars, printed, response>>

\* the task answers of the runs of app.py: the small set, a record that
\* fails to convert, a task without a due date
AppTaskResponses ==
    FewTaskResponses \cup ConversionFailures
    \cup { [kind |-> "ok", dues |-> <<[kind |-> "none", d |-> 0]>>, failed |-> 0] }

\* app.py main: tasks = get_tasks(todoist_api_key)
AppGetTasksCall ==
    /\ pc = "app_get_tasks"
    /\ \E resp \in AppTaskResponses :
          /\ tasksResp' = resp
          /\ tasks' = AppGetTasks(resp)
    /\ calls' = Append(calls, "todoist")
    /\ pc' = "app_fetch_news"
    /\ UNCHANGED <<missing, day, newsResp, current_date, news, primaryResp,
                   secondaryResp, weather, renderVars, smtpVars, printed, response>>

\* app.py fetch_updates: news = await fetch_news_async(news_api_key)
AppFetchNewsCall ==
    /\ pc = "app_fetch_news"
    /\ \E now \in ClockReadings :
          /\ day' = now
          /\ current_date' = now
    /\ \E resp \in NewsResponses :
          /\ newsResp' = resp
          /\ news' = NewsText(resp)
    /\ calls' = Append(calls, "mediastack")
    /\ pc' = "app_fetch_weather"
    /\ UNCHANGED <<missing, tasksResp, tasks, primaryResp, secondaryResp, weather,
                   renderVars, smtpVars, printed, response>>

\* app.py fetch_updates: weather = await fetch_weather_async(...)
AppFetchWeatherCall ==
    /\ pc = "app_fetch_weather"
    /\ \E resp \in WeatherResponses(WeatherbitPayloads) :
          weather' = AppFetchWeather(resp)
    /\ calls' = Append(calls, "weatherbit")
    /\ pc' = "app_send_email"
    /\ UNCHANGED <<missing, day, tasksResp, tasks, newsResp, current_date, news,
                   primaryResp, secondaryResp, renderVars, smtpVars, printed, response>>

\* app.py send_email up to msg.attach: the news block is parsed, the weather
\* and task sentences are put into the template as they are
AppRenderDigest ==
    /\ pc = "app_send_email"
    /\ msg' = [news_items |-> NewsItems(news), weather_content |-> weather,
               tasks_content |-> tasks]
    /\ pc' = "smtp_connect"
    /\ UNCHANGED <<missing, day, calls, fetchVars, today, today_tasks, tomorrow_tasks,
                   smtpVars, printed, response>>

\* main has returned and root answers the request
RootReturn ==
    /\ pc = "done"
    /\ Count(calls, "main") > 0
    /\ response' = RootResponse
    /\ pc' = "responded"
    /\ UNCHANGED <<missing, day, calls, fetchVars, renderVars, smtpVars, printed>>

\* a request to the wrapper, every option set
InitHttp ==
    /\ pc = "root"
    /\ missing = "none"
    /\ day = Day0
    /\ calls = <<>>
    /\ tasksResp = NoResp
    /\ tasks = <<>>
    /\ newsResp = NoResp
    /\ current_date = NoDay
    /\ news = Unset
    /\ primaryResp = NoResp
    /\ secondaryResp = NoResp
    /\ weather = None
    /\ today = NoDay
    /\ today_tasks = <<>>
    /\ tomorrow_tasks = <<>>
    /\ msg = NoMsg
    /\ smtp_steps = <<>>
    /\ send_status = NoStatus
    /\ printed = <<>>
    /\ response = NoResponse

NextHttp ==
    \/ RootCall
    \/ AppGetTasksCall
    \/ AppFetchNewsCall
    \/ AppFetchWeatherCall
    \/ AppRenderDigest
    \/ SmtpConnect
    \/ SmtpStarttls
    \/ SmtpLogin
    \/ SmtpSendMessage
    \/ SmtpQuit
    \/ PrintStatus
    \/ RootReturn

SpecHttp == InitHttp /\ [][NextHttp]_vars

(* ------------------------------ both entry points ---------------------- *)
\* a run of src/main.py as a script, or a request to the wrapper, which runs
\* the main of src/app.py
InitBoth == InitConfigured \/ InitHttp

NextBoth ==
    \/ GetTasksCall
    \/ GetTasksReturn
    \/ FetchNewsCall
    \/ FetchNewsReturn
    \/ FetchWeatherCall
    \/ PrimaryReturn
    \/ SecondaryReturn
    \/ FetchUpdatesReturn
    \/ RenderDigest
    \/ RootCall
    \/ AppGetTasksCall
    \/ AppFetchNewsCall
    \/ AppFetchWeatherCall
    \/ AppRenderDigest
    \/ SmtpConnect
    \/ SmtpStarttls
    \/ SmtpLogin
    \/ SmtpSendMessage
    \/ SmtpQuit
    \/ PrintStatus
    \/ RootReturn

SpecBoth == InitBoth /\ [][NextBoth]_vars

(* ------------------------------ progress ------------------------------- *)
\* the steps main takes by itself
ProgramStep ==
    \/ GetTasksCall
    \/ FetchNewsCall
    \/ FetchWeatherCall
    \/ FetchUpdatesReturn
    \/ RenderDigest
    \/ PrintStatus

\* the steps of the SMTP block, the mail server answering each command
SmtpBlock ==
    \/ SmtpConnect
    \/ SmtpStarttls
    \/ SmtpLogin
    \/ SmtpSendMessage
    \/ SmtpQuit

\* main goes on whenever it can and the mail server answers.  The news and
\* weather requests go through aiohttp's ClientSession, whose default total
\* timeout ends a silent request with an exception, so fetch_news_async and
\* the weather adapters return.  get_tasks passes no timeout to TodoistAPI
\* and calls it synchronously: nothing makes api.get_tasks() return.
Progress ==
    /\ WF_vars(ProgramStep)
    /\ WF_vars(SmtpBlock)
    /\ WF_vars(NewsFetchNewsReturn)
    /\ WF_vars(NewsPrimaryReturn)
    /\ WF_vars(NewsSecondaryReturn)

SpecLive == InitConfigured /\ [][NextNews]_vars /\ Progress

TypeOK ==
    /\ pc \in {"get_tasks", "tasks_wait", "fetch_news", "news_wait", "fetch_weather",
               "primary_wait", "secondary_wait", "updates_done", "send_email",
               "smtp_connect",
               "smtp_starttls", "smtp_login", "smtp_send", "smtp_quit", "print", "done"}
    /\ day \in Day0..(Day0 + MaxTicks)
    /\ Len(tasks) <= MaxTasks
    /\ response \in {NoResponse, RootResponse}

(* ------------------------------ properties ----------------------------- *)
NewsInFlight == pc = "news_wait"
WeatherInFlight == pc \in {"primary_wait", "secondary_wait"}
InWeatherChain == pc \in {"primary_wait", "secondary_wait", "updates_done"}
WeatherChainStarted == pc \notin {"get_tasks", "tasks_wait", "fetch_news", "news_wait",
                                  "fetch_weather"}
WeatherChainDone == WeatherChainStarted /\ ~WeatherInFlight
Answered(resp) == resp # NoResp
Before(x, y) == FirstIndex(calls, x, 1) # 0 /\ FirstIndex(calls, x, 1) < FirstIndex(calls, y, 1)
InBucket(task, bucket) == \E j \in 1..Len(bucket) : bucket[j] = task
IsReport(w) == DOMAIN w = {"source", "location", "current"}
IsUnavailable(w) == DOMAIN w = {"error", "message"} /\ w.error = TRUE
ClassificationCompleted == today # NoDay /\ send_status.cause # "strptime"

\* C1: the weather chain is started without waiting for the news result, so
\* the news request and a weather request are in flight together: whenever the
\* news provider has answered, the primary weather request has been sent.
C1_WeatherStartedBeforeNewsResult ==
    Answered(newsResp) => Count(calls, "weatherapi") >= 1

\* C2: the primary is requested exactly once and before any secondary
\* request; the secondary is requested at most once, only after the primary
\* failed, never after a well-formed primary answer.
C2_FallbackChainOrder ==
    /\ Count(calls, "weatherapi") <= 1
    /\ Count(calls, "weatherbit") <= 1
    /\ WeatherChainStarted => Count(calls, "weatherapi") = 1
    /\ Count(calls, "weatherbit") = 1 => Before("weatherapi", "weatherbit")
    /\ (InWeatherChain /\ Count(calls, "weatherbit") = 1) =>
           (Answered(primaryResp) /\ ~WellFormed(primaryResp))
    /\ (InWeatherChain /\ WellFormed(primaryResp)) => Count(calls, "weatherbit") = 0
    /\ (WeatherChainDone /\ IsReport(weather) /\ weather.source = "WeatherAPI.com") =>
           Count(calls, "weatherbit") = 0

C2_Witness ==
    /\ pc = "updates_done"
    /\ ~WellFormed(primaryResp)
    /\ Answered(secondaryResp)
    /\ calls = <<"todoist", "mediastack", "weatherapi", "weatherbit">>

\* C3: after every kind of primary failure the secondary is called, and a
\* well-formed secondary answer gives a report with the secondary's data
\* and the source name "Weatherbit".
C3_SecondaryAfterPrimaryFailure ==
    /\ (InWeatherChain /\ Answered(primaryResp) /\ ~WellFormed(primaryResp)) =>
           Count(calls, "weatherbit") = 1
    /\ (pc = "updates_done" /\ ~WellFormed(primaryResp)) =>
           /\ Answered(secondaryResp)
           /\ WellFormed(secondaryResp) =>
                 /\ IsReport(weather)
                 /\ weather.source = "Weatherbit"
                 /\ weather.location.city = secondaryResp.payload.city_name
                 /\ weather.location.country = secondaryResp.payload.country_code
                 /\ weather.current.temp_c = secondaryResp.payload.temp
                 /\ weather.current.condition = secondaryResp.payload.description
                 /\ weather.current.humidity = secondaryResp.payload.rh
                 /\ weather.current.last_updated = secondaryResp.payload.ob_time

C3_Witness ==
    /\ pc = "updates_done"
    /\ primaryResp.kind = "http" /\ primaryResp.status # 200
    /\ WellFormed(secondaryResp)
    /\ weather.source = "Weatherbit"

\* C4: fetch_weather_async always returns one of two variants, a report
\* (source, location, current; no error tag) or the unavailable value (error
\* tag and message; no report field), and the unavailable value exactly when
\* both providers failed.
C4_WeatherVariants ==
    /\ WeatherChainDone =>
           /\ IsReport(weather) \/ IsUnavailable(weather)
           /\ ~(IsReport(weather) /\ IsUnavailable(weather))
    /\ pc = "updates_done" =>
           (IsUnavailable(weather) <=>
               /\ ~WellFormed(primaryResp)
               /\ Answered(secondaryResp) /\ ~WellFormed(secondaryResp))

C4_Witness ==
    /\ pc = "updates_done"
    /\ IsUnavailable(weather)
    /\ primaryResp.kind = "exception"
    /\ secondaryResp.kind = "http" /\ secondaryResp.body = "partial"

\* C5: a failure of a single source never aborts the run: after a failed
\* task fetch, a failed news fetch or two failed weather providers the digest
\* is still rendered and the SMTP submission is reached, and only a
\* configuration or delivery error makes the final status a failure.
C5_SourceFailureIsolated ==
    pc = "done" =>
        /\ (tasksResp.kind = "error" \/ newsResp.kind = "exception"
               \/ IsUnavailable(weather)) =>
              (msg # NoMsg /\ Count(calls, "smtp") = 1)
        /\ send_status.text # SentText =>
              \/ missing # "none"
              \/ send_status.cause \in {"connect", "starttls", "login", "send_message", "quit"}

\* C6: every task is in at most one of today_tasks and tomorrow_tasks, and a
\* task with no due date, a due date before today or a due date after
\* tomorrow (today + 2 included) is in neither.
C6_BucketsDisjoint ==
    today # NoDay =>
        \A i \in 1..Len(tasks) :
            LET task == tasks[i]
            IN  /\ ~(InBucket(task, today_tasks) /\ InBucket(task, tomorrow_tasks))
                /\ (\/ task.due.kind = "none"
                    \/ task.due.kind = "date" /\ task.due.d < today
                    \/ task.due.kind = "date" /\ task.due.d > today + 1)
                      => (~InBucket(task, today_tasks) /\ ~InBucket(task, tomorrow_tasks))

C6_Witness ==
    /\ today # NoDay
    /\ \E i \in 1..Len(tasks) : tasks[i].due.kind = "date" /\ tasks[i].due.d = today + 2
    /\ \E i \in 1..Len(tasks) : tasks[i].due.kind = "date" /\ tasks[i].due.d = today + 1
    /\ Len(tomorrow_tasks) = 1

\* C7: today_tasks is the subsequence of the input tasks due today and
\* tomorrow_tasks the subsequence due today + 1, both in input order.
C7_BucketsExact ==
    ClassificationCompleted =>
        /\ today_tasks =
              SelectSeq(tasks, LAMBDA t : t.due.kind = "date" /\ t.due.d = today)
        /\ tomorrow_tasks =
              SelectSeq(tasks, LAMBDA t : t.due.kind = "date" /\ t.due.d = today + 1)

C7_Witness ==
    /\ ClassificationCompleted
    /\ Len(tasks) = 2
    /\ tasks[1].due = [kind |-> "date", d |-> today + 1]
    /\ tasks[2].due = [kind |-> "date", d |-> today]
    /\ today_tasks = <<tasks[2]>>
    /\ tomorrow_tasks = <<tasks[1]>>

\* C8: when a required configuration option is absent the run is aborted
\* before any network call is attempted.
C8_NoNetworkCallWithoutConfig ==
    missing # "none" => calls = <<>>

\* C9: every run of main ends with exactly one status string, the success
\* string if and only if the SMTP send completed and otherwise a failure
\* string naming the cause.
C9_OneStatusLine ==
    pc = "done" =>
        /\ Len(printed) = 1
        /\ printed[1].text \in {SentText, FailedText, UnexpectedText}
        /\ printed[1].text = SentText <=> Count(smtp_steps, "send_message") = 1
        /\ printed[1].text # SentText => printed[1].cause # "none"

\* C10: when the news provider returns zero articles the rendered digest
\* holds zero news items, no placeholder article.
C10_NoArticlesNoNewsItems ==
    (newsResp.kind = "data" /\ newsResp.data = <<>> /\ msg # NoMsg) =>
        Len(msg.news_items) = 0

\* C11: every use of the current date within one run has the same value: the
\* publish date of the news query equals the today of the classification.
C11_OneDatePerRun ==
    today # NoDay => current_date = today

SendEmailBegun == today # NoDay
FetchesOf(w) ==
    IF IsReport(w) /\ w.source = "WeatherAPI.com"
    THEN <<"todoist", "mediastack", "weatherapi">>
    ELSE <<"todoist", "mediastack", "weatherapi", "weatherbit">>

\* C12: once send_email has begun the task fetch, the news fetch and the
\* weather chain have all completed, no fetch is in flight and none is started
\* any more (the only call added to the fetches is the SMTP connection), and
\* a rendered digest holds the result of every source.
C12_DeliveryAfterAllFetches ==
    /\ SendEmailBegun =>
          /\ Answered(tasksResp) /\ Answered(newsResp) /\ news # Unset
          /\ IsReport(weather) \/ IsUnavailable(weather)
          /\ pc \notin {"get_tasks", "tasks_wait", "fetch_news", "news_wait",
                        "fetch_weather", "primary_wait", "secondary_wait", "updates_done"}
          /\ calls \in {FetchesOf(weather), Append(FetchesOf(weather), "smtp")}
    /\ (smtp_steps # <<>> \/ Count(calls, "smtp") > 0) => SendEmailBegun
    /\ msg # NoMsg =>
          /\ SendEmailBegun
          /\ msg.today_tasks = today_tasks /\ msg.tomorrow_tasks = tomorrow_tasks
    /\ pc = "smtp_connect" =>
          /\ msg.news_items = NewsItems(news)
          /\ msg.weather = FormatWeatherHtml(weather)

C12_Witness ==
    /\ pc = "smtp_login"
    /\ smtp_steps = <<"connect", "starttls">>
    /\ calls = <<"todoist", "mediastack", "weatherapi", "weatherbit", "smtp">>
    /\ IsUnavailable(weather)
    /\ msg # NoMsg

NewsSentinels == {NoNewsFound, ErrorFetchingNews}
HasMarker(s) == Contains(s, <<"T">>) \/ Contains(s, <<"D">>) \/ Contains(s, <<"U">>)

\* C13: on a transport error, an undecodable body or a payload without
\* article data fetch_news_async returns a no-news indicator that is not a
\* block of articles, and the digest built from it shows no article entry.
C13_NoNewsIndicatorShowsNoArticle ==
    (Answered(newsResp) /\ newsResp.kind \in {"exception", "nodata"}) =>
        /\ news \in NewsSentinels
        /\ ~HasMarker(news)
        /\ msg # NoMsg => Len(msg.news_items) = 0

\* C14: for an article record missing its title, description or url the news
\* item carries "No title", "No description" or "#" for the missing field and
\* the provider's values for the others, one item per record.
C14_DefaultsForMissingFields ==
    (msg # NoMsg /\ newsResp.kind = "data" /\ Len(newsResp.data) >= 1) =>
        /\ Len(msg.news_items) = Len(newsResp.data)
        /\ \A i \in 1..Len(newsResp.data) :
              /\ msg.news_items[i].title = Get(newsResp.data[i].title, <<"No title">>)
              /\ msg.news_items[i].description =
                    Get(newsResp.data[i].description, <<"No description">>)
              /\ msg.news_items[i].url = Get(newsResp.data[i].url, <<"#">>)

\* C15: the digest carries at most NewsLimit news items, whatever the
\* provider answers.
C15_AtMostLimitItems ==
    msg # NoMsg => Len(msg.news_items) <= NewsLimit


\* C16: get_tasks always returns: the empty list when the client, the request
\* or the conversion of any record raised, and otherwise one entry per task
\* of the provider, in order; never a part of the list.
C16_TasksAllOrNothing ==
    Answered(tasksResp) =>
        /\ pc \notin {"get_tasks", "tasks_wait"}
        /\ IF tasksResp.kind = "error" \/ tasksResp.failed # 0
           THEN tasks = <<>>
           ELSE /\ Len(tasks) = Len(tasksResp.dues)
                /\ \A i \in 1..Len(tasks) : tasks[i].due = tasksResp.dues[i]

C16_Witness ==
    /\ pc = "fetch_news"
    /\ tasksResp.kind = "ok"
    /\ Len(tasksResp.dues) = 2
    /\ tasksResp.failed = 2
    /\ tasks = <<>>


\* C17: when the wrapper has answered a GET, main has run exactly once and
\* the result field of the answer is the delivery status that run produced.
C17_ResultCarriesStatus ==
    pc = "responded" =>
        /\ Count(calls, "main") = 1
        /\ Len(printed) = 1
        /\ response.result = send_status


\* C18: whatever a provider does, silence included, the run eventually
\* prints its status line.
C18_RunReachesStatusLine == <>(Len(printed) = 1)


\* C19: a report from Weatherbit carries the provider's wind speed (m/s)
\* times 3.6 as wind_kph (tenths of m/s times 36 being hundredths of km/h), a report from WeatherAPI.com carries the provider's
\* wind_kph as it is, and both carry the provider's temperature and
\* feels-like temperature (degrees Celsius) as they are.
C19_OneUnitSet ==
    (pc = "updates_done" /\ IsReport(weather)) =>
        IF weather.source = "Weatherbit"
        THEN /\ weather.current.wind_kph = secondaryResp.payload.wind_spd * 36
             /\ weather.current.temp_c = secondaryResp.payload.temp
             /\ weather.current.feels_like = secondaryResp.payload.app_temp
        ELSE /\ weather.current.wind_kph = primaryResp.payload.wind_kph
             /\ weather.current.temp_c = primaryResp.payload.temp_c
             /\ weather.current.feels_like = primaryResp.payload.feelslike_c

C19_Witness ==
    /\ pc = "updates_done"
    /\ IsReport(weather)
    /\ weather.source = "Weatherbit"
    /\ secondaryResp.payload.wind_spd = 50
    /\ weather.current.wind_kph = 1800


\* C20: whenever the classification of the tasks completes, whatever the two
\* buckets hold, send_email builds the document and goes on to the SMTP
\* block: it has not returned from a handler before opening the connection.
C20_RendersForEveryBuckets ==
    ClassificationCompleted =>
        /\ msg # NoMsg
        /\ send_status.cause # "html_template"
        /\ pc = "print" => send_status.cause \in {"connect", "starttls", "login",
                                                  "send_message", "quit", "none"}


\* C21: for a data array of records with every key present, the digest
\* carries one news item per record, in order, with the record's title,
\* description and url, whatever text the fields hold.
C21_NewsRoundTrip ==
    (pc = "smtp_connect" /\ newsResp.kind = "data" /\ Len(newsResp.data) >= 1) =>
        /\ Len(msg.news_items) = Len(newsResp.data)
        /\ \A i \in 1..Len(newsResp.data) :
              /\ msg.news_items[i].title = newsResp.data[i].title
              /\ msg.news_items[i].description = newsResp.data[i].description
              /\ msg.news_items[i].url = newsResp.data[i].url


\* the order of the with block of send_email
SmtpOrder == <<"connect", "starttls", "login", "send_message", "quit">>
IsPrefix(s, t) == Len(s) <= Len(t) /\ \A i \in 1..Len(s) : s[i] = t[i]

\* C22: the SMTP steps that completed are a prefix of connect, starttls,
\* login, send_message, quit, so at most one message is submitted; the
\* status "Email sent successfully." is set only after send_message
\* completed; a status set by a failure before send_message comes with no
\* message submitted.
C22_SmtpOrder ==
    /\ IsPrefix(smtp_steps, SmtpOrder)
    /\ Count(smtp_steps, "send_message") <= 1
    /\ send_status.text = SentText => Count(smtp_steps, "send_message") = 1
    /\ (send_status # NoStatus /\ send_status.cause \notin {"none", "send_message", "quit"})
          => /\ send_status.text \in {FailedText, UnexpectedText}
             /\ Count(smtp_steps, "send_message") = 0

C22_Witness ==
    /\ pc = "print"
    /\ smtp_steps = <<"connect", "starttls">>
    /\ send_status = Failed("login")
    /\ msg # NoMsg


Parseable(task) == task.due.kind # "bad"

\* C23: when exactly one task has a due value that strptime rejects, the
\* buckets are those of the other tasks, and the digest is rendered as it is
\* for the other tasks alone.
C23_UnparseableDueLeftOut ==
    LET rest == SelectSeq(tasks, Parseable)
        c == Classify(rest, today)
    IN  (today # NoDay /\ Len(rest) = Len(tasks) - 1) =>
            /\ today_tasks = c.today_tasks
            /\ tomorrow_tasks = c.tomorrow_tasks
            /\ TemplateBound(c.tomorrow_tasks) => msg # NoMsg


\* the provider calls of the run, without the wrapper's call of main and
\* without the SMTP connection
IsProviderCall(c) == c \notin {"main", "smtp"}
ProviderCalls == SelectSeq(calls, IsProviderCall)

\* the sequences of provider calls of src/main.py: the primary weather
\* provider is always asked, the secondary after it when the primary fails
MainFetches ==
    { <<"todoist", "mediastack", "weatherapi">>,
      <<"todoist", "mediastack", "weatherapi", "weatherbit">> }

\* the tasks the digest of src/app.py names
AppDigestTasks ==
    IF tasksResp.kind = "error" \/ tasksResp.failed # 0 \/ tasksResp.dues = <<>>
    THEN {}
    ELSE { tasks.open[i] : i \in 1..Len(tasks.open) }

\* the tasks the digest of src/main.py shows for the same answer of the task
\* provider, send_email reading the clock as now
MainDigestTasks(now) ==
    LET c == Classify(GetTasks(tasksResp), now)
    IN  { c.today_tasks[i].id : i \in 1..Len(c.today_tasks) }
        \cup { c.tomorrow_tasks[i].id : i \in 1..Len(c.tomorrow_tasks) }

\* C24: a run of the main of src/app.py that has rendered its digest has
\* made a sequence of provider calls that src/main.py makes, and its digest
\* names the tasks that the digest of src/main.py shows for the same answer
\* of the task provider.
C24_AppSameAsMain ==
    (Count(calls, "main") > 0 /\ pc = "smtp_connect") =>
        /\ ProviderCalls \in MainFetches
        /\ \E now \in ClockReadings : AppDigestTasks = MainDigestTasks(now)

====
